---- MODULE Spec2Model ----
(***************************************************************************)
(* A model of src/hdmi_cable_tester.py: the HDMICableTester class (its     *)
(* report under construction, the four test units, the bandwidth formula,  *)
(* the grading) and main()/run_full_test() that drive it.                  *)
(*                                                                         *)
(* Three specifications share the variables:                               *)
(*   Spec           main(): one run of run_full_test, the probe answering  *)
(*                  freely per call (at most MaxFaults answers per run     *)
(*                  differ from the nominal one);                          *)
(*   SpecApi        a caller of the class that runs test units in any      *)
(*                  order and then assess_cable_quality;                   *)
(*   SpecBandwidth  calls of calculate_bandwidth_requirement on arguments  *)
(*                  drawn from bounded sets.                               *)
(*                                                                         *)
(* Python values are modelled as follows.  A dict is a record, a list a    *)
(* sequence.  The value of a "supported" key is one of the strings "True", *)
(* "False", "unknown" (Python's True, False and 'unknown').  Wall-clock    *)
(* values (the "timestamp" keys, the report's file name) are left out of   *)
(* the outcomes: no branch of the code reads them.  Text written to the    *)
(* terminal is not modelled, except that a print call may raise.           *)
(***************************************************************************)
EXTENDS Integers, Sequences, FiniteSets, TLC

(***************************************************************************)
(* Bounds of the model.                                                    *)
(***************************************************************************)
\* calculate_bandwidth_requirement is called on -1..MaxDim besides real sizes
MaxDim == 2
\* probe answers per run of main() that differ from the nominal answer
MaxFaults == 2
\* test units a caller of the class runs before assess_cable_quality
MaxTests == 5
\* the duration a caller of the class passes to test_signal_stability
ApiDuration == 2

(***************************************************************************)
(* Exact arithmetic on bandwidths.  A bandwidth is held in eighths of a    *)
(* bit per second (the formula's factors 1.5 and 1.25 are 3/2 and 5/4), as *)
(* a pair <<hi, lo>> standing for hi * 10^6 + lo with 0 <= lo < 10^6, so   *)
(* that 3840 * 2160 * 120 * 24 * 1.25 stays within TLC's integers.  The    *)
(* code computes in doubles: pixels * bits is an exact integer below 2^53, *)
(* times 1.25 is exact, and the one rounding (the division by 10^9) is     *)
(* monotone and far finer than the granularity of the values (1.25e-10     *)
(* Gbps), so comparisons of the doubles agree with the exact ones.         *)
(***************************************************************************)
Base == 1000 * 1000

\* n * k as a pair, for |n| < 2^31 and |k| small
Times(n, k) ==
    LET hi == n \div Base
        lo == n % Base
    IN  << hi * k + ((lo * k) \div Base), (lo * k) % Base >>

LessEq(a, b) == a[1] < b[1] \/ (a[1] = b[1] /\ a[2] <= b[2])

\* a ceiling given in tenths of a Gbps, in eighths of a bit per second
Gbps(tenths) == << tenths * 800, 0 >>

\* round(bandwidth, 2): hundredths of a Gbps, nearest (8 * 10^7 eighths each)
Round2(bw) == (bw[1] + 40) \div 80

Chromas == {"4:4:4", "4:2:2", "4:2:0"}

\* twice the bits per pixel: 4:2:2 taken as one sample per pixel
BitsPerPixel2Swapped(bit_depth, chroma) ==
    IF chroma = "4:4:4" THEN bit_depth * 6
    ELSE IF chroma = "4:2:2" THEN bit_depth * 2
    ELSE bit_depth * 3

\* twice the bits per pixel (bit_depth * 3, * 2, * 1.5)
BitsPerPixel2(bit_depth, chroma) ==
    IF chroma = "4:4:4" THEN bit_depth * 6
    ELSE IF chroma = "4:2:2" THEN bit_depth * 4
    ELSE bit_depth * 3

\* The call's result: the code has no raise statement, so no call on
\* integers ends in an exception.
calculate_bandwidth_requirement(width, height, refresh_rate, bit_depth, chroma) ==
    LET pixels_per_second == width * height * refresh_rate
        bandwidth == Times(pixels_per_second, BitsPerPixel2(bit_depth, chroma) * 5)
    IN  [exception |-> "None", bandwidth |-> bandwidth]

VARIABLES
    is_windows,     \* self.is_windows
    test_results,   \* self.test_results
    pc,             \* where main(), or the caller of the class, stands
    test_result,    \* test_signal_stability's local outcome, while it runs
    i,              \* test_signal_stability's loop index
    quality,        \* what assess_cable_quality returned
    report,         \* what generate_report returned
    saved,          \* what save_report wrote
    exit_code,      \* the process's exit status, -1 while it runs
    fault,          \* what ended main() early: "None", "KeyboardInterrupt", "Exception"
    fault_at,       \* pc at that moment
    partial,        \* the samples test_signal_stability held at that moment
    faults,         \* probe answers so far that differ from the nominal one
    raised,         \* probe calls so far that raised
    calls,          \* the methods of the tester called so far, in order
    env,            \* how the probe answers: "any", or one fixed way
    bw_call         \* the last call of calculate_bandwidth_requirement

vars == << is_windows, test_results, pc, test_result, i, quality, report, saved,
           exit_code, fault, fault_at, partial, faults, raised, calls, env, bw_call >>

None == "None"

(***************************************************************************)
(* The display probe: the PowerShell commands the units run on Windows.    *)
(* An answer is what subprocess.run did: it raised (TimeoutExpired, or the *)
(* command is missing), or it returned with some stdout.  The stdout of a  *)
(* mode query is held as its words, so that "not_supported" is seen to     *)
(* contain "supported"; the stdout of the monitor count is a string.       *)
(***************************************************************************)
Said(out) == [raised |-> FALSE, stdout |-> out]
ModeRaised == [raised |-> TRUE, stdout |-> << >>]
CountRaised == [raised |-> TRUE, stdout |-> ""]

ModeAnswers ==
    {Said(<<"supported">>), Said(<<"not_", "supported">>), Said(<< >>), ModeRaised}
ModeNominal == Said(<<"supported">>)

CountAnswers == {Said("1"), Said("0"), Said(""), CountRaised}
CountNominal == Said("1")

Regimes == {"ok", "no_mode", "no_display", "timeout"}

ModeAnswerIn(e) ==
    CASE e = "ok" -> Said(<<"supported">>)
      [] e = "no_mode" -> Said(<<"not_", "supported">>)
      [] e = "no_display" -> Said(<< >>)
      [] OTHER -> ModeRaised

CountAnswerIn(e) ==
    CASE e \in {"ok", "no_mode"} -> Said("1")
      [] e = "no_display" -> Said("0")
      [] OTHER -> CountRaised

\* the answers one probe call may get now
AnswersNow(all, nominal, fixed) ==
    IF env = "any"
    THEN IF faults < MaxFaults THEN all ELSE {nominal}
    ELSE {fixed}

\* the answers the n probe calls of one unit may get now
AnswerVectors(n, all, nominal, fixed) ==
    IF ~is_windows THEN {[j \in 1..n |-> nominal]}
    ELSE IF env = "any"
    THEN {v \in [1..n -> all] :
            faults + Cardinality({j \in 1..n : v[j] # nominal}) <= MaxFaults}
    ELSE {[j \in 1..n |-> fixed]}

FaultsIn(v, nominal) ==
    IF is_windows /\ env = "any"
    THEN Cardinality({j \in DOMAIN v : v[j] # nominal})
    ELSE 0

\* the probe calls among v that raised (none is made off Windows)
RaisedIn(v) ==
    IF is_windows THEN Cardinality({j \in DOMAIN v : v[j].raised}) ELSE 0

\* "supported" in result.stdout.lower()
Contains(stdout, word) == \E j \in 1..Len(stdout) : stdout[j] = word

PyBool(b) == IF b THEN "True" ELSE "False"

\* str.isdigit and int, on the outputs the model draws
IsDigit(s) == s \in {"0", "1", "2"}
ToInt(s) == CASE s = "0" -> 0 [] s = "1" -> 1 [] s = "2" -> 2

(***************************************************************************)
(* The test units' outcomes, as functions of the probe's answers.          *)
(***************************************************************************)
res_name(width, height) == << width, "x", height >>

default_resolutions == << <<1920, 1080>>, <<2560, 1440>>, <<3840, 2160>>, <<1280, 720>> >>

\* resolutions or [...]
standard_resolutions(resolutions) ==
    IF resolutions # << >> THEN resolutions ELSE default_resolutions

\* one entry of resolutions_tested / refresh_rates_tested
mode_entry(key, name, answer, linux_entry) ==
    IF is_windows
    THEN IF answer.raised
         THEN (key :> name) @@ [supported |-> "False", error |-> "e"]
         ELSE (key :> name) @@ [supported |-> PyBool(Contains(answer.stdout, "supported"))]
    ELSE (key :> name) @@ linux_entry

\* the outcome were the loop to end at the first probe call that raises
test_resolution_support_stops(resolutions, answers) ==
    LET std == standard_resolutions(resolutions)
        done == IF \E j \in 1..Len(std) : answers[j].raised
                THEN CHOOSE j \in 1..Len(std) :
                        answers[j].raised /\ \A k \in 1..(j - 1) : ~answers[k].raised
                ELSE Len(std)
    IN  [test_name |-> "Resolution Support Test",
         resolutions_tested |->
            [j \in 1..done |->
                mode_entry("resolution", res_name(std[j][1], std[j][2]), answers[j],
                           [supported |-> "unknown", note |-> "Requires active display session to test"])],
         passed |-> TRUE]

test_resolution_support(resolutions, answers) ==
    LET std == standard_resolutions(resolutions)
    IN  [test_name |-> "Resolution Support Test",
         resolutions_tested |->
            [j \in 1..Len(std) |->
                mode_entry("resolution", res_name(std[j][1], std[j][2]), answers[j],
                           [supported |-> "unknown", note |-> "Requires active display session to test"])],
         passed |-> TRUE]

standard_rates == << 60, 75, 120, 144, 240 >>

test_refresh_rates(answers) ==
    [test_name |-> "Refresh Rate Test",
     refresh_rates_tested |->
        [j \in 1..Len(standard_rates) |->
            mode_entry("refresh_rate", << standard_rates[j], "Hz" >>, answers[j],
                       [supported |-> "unknown"])],
     passed |-> TRUE]

test_scenarios ==
    << [width |-> 1920, height |-> 1080, rate |-> 60,  name |-> "1080p@60Hz"],
       [width |-> 1920, height |-> 1080, rate |-> 144, name |-> "1080p@144Hz"],
       [width |-> 2560, height |-> 1440, rate |-> 60,  name |-> "1440p@60Hz"],
       [width |-> 2560, height |-> 1440, rate |-> 144, name |-> "1440p@144Hz"],
       [width |-> 3840, height |-> 2160, rate |-> 60,  name |-> "4K@60Hz"],
       [width |-> 3840, height |-> 2160, rate |-> 120, name |-> "4K@120Hz"] >>

\* the ceilings, in tenths of a Gbps, in the dict's order
hdmi_versions ==
    << [version |-> "HDMI 1.4", max_bw |-> 102],
       [version |-> "HDMI 2.0", max_bw |-> 180],
       [version |-> "HDMI 2.1", max_bw |-> 480] >>

\* the versions whose ceiling the bandwidth reaches or exceeds
compatible_flipped(bandwidth) ==
    LET fits == SelectSeq(hdmi_versions, LAMBDA v : LessEq(Gbps(v.max_bw), bandwidth))
    IN  [j \in 1..Len(fits) |-> fits[j].version]

\* for version, max_bw in hdmi_versions.items(): if bandwidth <= max_bw: ...
compatible(bandwidth) ==
    LET fits == SelectSeq(hdmi_versions, LAMBDA v : LessEq(bandwidth, Gbps(v.max_bw)))
    IN  [j \in 1..Len(fits) |-> fits[j].version]

test_bandwidth_capabilities ==
    [test_name |-> "Bandwidth Analysis",
     bandwidth_tests |->
        [j \in 1..Len(test_scenarios) |->
            LET sc == test_scenarios[j]
                bandwidth == calculate_bandwidth_requirement(
                                sc.width, sc.height, sc.rate, 8, "4:4:4").bandwidth
            IN  [scenario |-> sc.name,
                 bandwidth_gbps |-> Round2(bandwidth),
                 compatible_versions |-> compatible(bandwidth)]]]

\* test_signal_stability's outcome before its loop
stability_start(duration) ==
    [test_name |-> "Signal Stability Test",
     duration_seconds |-> duration,
     samples |-> << >>,
     passed |-> TRUE]

\* one pass of the loop body on Windows, the probe having answered
stability_sample(tr, time, answer) ==
    IF answer.raised
    THEN [tr EXCEPT !.samples = Append(@, [time |-> time, error |-> "Could not check connection"])]
    ELSE LET count == IF IsDigit(answer.stdout) THEN ToInt(answer.stdout) ELSE 0
         IN  [tr EXCEPT !.samples = Append(@, [time |-> time,
                                               displays_connected |-> count,
                                               stable |-> count > 0]),
                        !.passed = IF count = 0 THEN FALSE ELSE @]

(***************************************************************************)
(* The grading.                                                            *)
(***************************************************************************)
\* test.get("passed", True)
get_passed(test) == IF "passed" \in DOMAIN test THEN test.passed ELSE TRUE

RECURSIVE count_passed(_)
count_passed(tests) ==
    IF tests = << >> THEN 0
    ELSE (IF get_passed(Head(tests)) THEN 1 ELSE 0) + count_passed(Tail(tests))

\* the grade with the thresholds exclusive
grade_strict(total_tests, passed_tests) ==
    IF total_tests = 0 THEN "Unknown"
    ELSE IF passed_tests = total_tests THEN "Excellent"
    ELSE IF passed_tests * 10 > total_tests * 8 THEN "Good"
    ELSE IF passed_tests * 10 > total_tests * 5 THEN "Fair"
    ELSE "Poor"

\* the grade without the case of an empty report
grade_no_unknown(total_tests, passed_tests) ==
    IF passed_tests = total_tests THEN "Excellent"
    ELSE IF passed_tests * 10 >= total_tests * 8 THEN "Good"
    ELSE IF passed_tests * 10 >= total_tests * 5 THEN "Fair"
    ELSE "Poor"

\* total_tests * 0.8 and * 0.5 are doubles; compared with an integer they
\* decide as the exact products do (checked for every total up to 5000)
grade(total_tests, passed_tests) ==
    IF total_tests = 0 THEN "Unknown"
    ELSE IF passed_tests = total_tests THEN "Excellent"
    ELSE IF passed_tests * 10 >= total_tests * 8 THEN "Good"
    ELSE IF passed_tests * 10 >= total_tests * 5 THEN "Fair"
    ELSE "Poor"

\* generate_report: the lines that depend on the report's content
render(results) ==
    [overall_quality |-> results.overall_quality,
     displays |-> results.displays,
     tests |-> [j \in 1..Len(results.tests) |->
                  [test_name |-> results.tests[j].test_name,
                   status |-> IF get_passed(results.tests[j]) THEN "PASSED" ELSE "FAILED"]]]

(***************************************************************************)
(* The state after HDMICableTester() is constructed.                       *)
(***************************************************************************)
NewTester(windows) ==
    /\ is_windows = windows
    /\ test_results = [timestamp |-> "now",
                       platform |-> IF windows THEN "Windows" ELSE "Linux",
                       displays |-> << >>,
                       tests |-> << >>,
                       overall_quality |-> "Unknown"]
    /\ bw_call = None
    /\ test_result = None
    /\ i = 0
    /\ quality = None
    /\ report = None
    /\ saved = None
    /\ exit_code = -1
    /\ fault = None
    /\ fault_at = None
    /\ partial = << >>
    /\ faults = 0
    /\ raised = 0
    /\ calls = << >>

(***************************************************************************)
(* The methods, as steps of whoever calls them: `at` is where the caller   *)
(* stands before the call and `next` where it stands after.                *)
(***************************************************************************)
\* the call is added to the record of calls
Called(method) == calls' = Append(calls, method)

\* what detect_displays_windows / detect_displays_linux may return
DetectedDisplays ==
    IF is_windows
    THEN { << >>,
           << [Name |-> "Generic PnP Monitor"] >>,
           << [Name |-> "Unknown Display",
               Note |-> "Run as Administrator for detailed information"] >> }
    ELSE { << [Note |-> "No displays detected."] >>,
           << [port |-> "HDMI-1", connected |-> TRUE, modes |-> << "1920x1080" >>] >> }

detect_displays(at, next) ==
    /\ pc = at
    /\ \E displays \in DetectedDisplays :
          test_results' = [test_results EXCEPT !.displays = displays]
    /\ pc' = next
    /\ Called("detect_displays")
    /\ UNCHANGED << is_windows, test_result, i, quality, report, saved, exit_code,
                    fault, fault_at, partial, faults, raised, env, bw_call >>

\* the outcome put at the head of the list instead of its end
InsertOutcomeFirst(outcome, answers, nominal) ==
    /\ test_results' = [test_results EXCEPT !.tests = << outcome >> \o @]
    /\ faults' = faults + FaultsIn(answers, nominal)
    /\ raised' = raised + RaisedIn(answers)

\* self.test_results["tests"].append(test_result), the probe calls counted
AppendOutcome(outcome, answers, nominal) ==
    /\ test_results' = [test_results EXCEPT !.tests = Append(@, outcome)]
    /\ faults' = faults + FaultsIn(answers, nominal)
    /\ raised' = raised + RaisedIn(answers)

ResolutionUnit(at, next, resolutions) ==
    /\ pc = at
    /\ \E answers \in AnswerVectors(Len(standard_resolutions(resolutions)),
                                    ModeAnswers, ModeNominal, ModeAnswerIn(env)) :
          AppendOutcome(test_resolution_support(resolutions, answers), answers, ModeNominal)
    /\ pc' = next
    /\ Called("test_resolution_support")
    /\ UNCHANGED << is_windows, test_result, i, quality, report, saved, exit_code,
                    fault, fault_at, partial, env, bw_call >>

RefreshUnit(at, next) ==
    /\ pc = at
    /\ \E answers \in AnswerVectors(Len(standard_rates),
                                    ModeAnswers, ModeNominal, ModeAnswerIn(env)) :
          AppendOutcome(test_refresh_rates(answers), answers, ModeNominal)
    /\ pc' = next
    /\ Called("test_refresh_rates")
    /\ UNCHANGED << is_windows, test_result, i, quality, report, saved, exit_code,
                    fault, fault_at, partial, env, bw_call >>

BandwidthUnit(at, next) ==
    /\ pc = at
    /\ test_results' = [test_results EXCEPT !.tests = Append(@, test_bandwidth_capabilities)]
    /\ pc' = next
    /\ Called("test_bandwidth_capabilities")
    /\ UNCHANGED << is_windows, test_result, i, quality, report, saved, exit_code,
                    fault, fault_at, partial, faults, raised, env, bw_call >>

\* test_signal_stability up to its loop
StabilityStart(at, duration) ==
    /\ pc = at
    /\ test_result' = stability_start(duration)
    /\ i' = 0
    /\ pc' = "stability"
    /\ Called("test_signal_stability")
    /\ UNCHANGED << is_windows, test_results, quality, report, saved, exit_code,
                    fault, fault_at, partial, faults, raised, env, bw_call >>

\* one pass of the loop: the probe call, the sample, time.sleep(1)
StabilitySample ==
    /\ pc = "stability"
    /\ i < test_result.duration_seconds
    /\ IF is_windows
       THEN \E answer \in AnswersNow(CountAnswers, CountNominal, CountAnswerIn(env)) :
               /\ test_result' = stability_sample(test_result, i, answer)
               /\ faults' = faults + FaultsIn(<< answer >>, CountNominal)
               /\ raised' = raised + RaisedIn(<< answer >>)
       ELSE UNCHANGED << test_result, faults, raised >>
    /\ i' = i + 1
    /\ UNCHANGED << is_windows, test_results, pc, quality, report, saved, exit_code,
                    fault, fault_at, partial, calls, env, bw_call >>

\* the loop is over: the outcome is appended and returned
StabilityEnd(next) ==
    /\ pc = "stability"
    /\ i >= test_result.duration_seconds
    /\ test_results' = [test_results EXCEPT !.tests = Append(@, test_result)]
    /\ test_result' = None
    /\ pc' = next
    /\ UNCHANGED << is_windows, i, quality, report, saved, exit_code,
                    fault, fault_at, partial, faults, raised, calls, env, bw_call >>

assess_cable_quality(at, next) ==
    /\ pc = at
    /\ LET total_tests == Len(test_results.tests)
           passed_tests == count_passed(test_results.tests)
           q == grade(total_tests, passed_tests)
       IN  /\ test_results' = [test_results EXCEPT !.overall_quality = q]
           /\ quality' = q
    /\ pc' = next
    /\ Called("assess_cable_quality")
    /\ UNCHANGED << is_windows, test_result, i, report, saved, exit_code,
                    fault, fault_at, partial, faults, raised, env, bw_call >>

generate_report(at, next) ==
    /\ pc = at
    /\ report' = render(test_results)
    /\ pc' = next
    /\ Called("generate_report")
    /\ UNCHANGED << is_windows, test_results, test_result, i, quality, saved, exit_code,
                    fault, fault_at, partial, faults, raised, env, bw_call >>

\* json.dump(self.test_results, f)
save_report(at, next) ==
    /\ pc = at
    /\ saved' = test_results
    /\ pc' = next
    /\ Called("save_report")
    /\ UNCHANGED << is_windows, test_results, test_result, i, quality, report, exit_code,
                    fault, fault_at, partial, faults, raised, env, bw_call >>

(***************************************************************************)
(* main() and run_full_test().                                             *)
(***************************************************************************)
Init ==
    /\ \E windows \in BOOLEAN : NewTester(windows)
    /\ env = "any"
    /\ pc = "start"

Running == pc \notin {"done", "exit"}

\* input("Press Enter to start testing...") returns
Start ==
    /\ pc = "start"
    /\ pc' = "detect"
    /\ UNCHANGED << is_windows, test_results, test_result, i, quality, report, saved,
                    exit_code, fault, fault_at, partial, faults, raised, calls, env, bw_call >>

Detect == detect_displays("detect", "resolution")

RunResolution ==
    ResolutionUnit("resolution", "refresh", << <<1920, 1080>>, <<2560, 1440>>, <<3840, 2160>> >>)

RunRefresh == RefreshUnit("refresh", "bandwidth")

RunBandwidth == BandwidthUnit("bandwidth", "ask_stability")

\* response.lower() == 'y'
AcceptStability == StabilityStart("ask_stability", 10)

\* declining, were the declined test to leave an outcome in the report
SkipStabilityRecorded ==
    /\ pc = "ask_stability"
    /\ test_results' = [test_results EXCEPT !.tests =
                            Append(@, [stability_start(0) EXCEPT !.passed = FALSE])]
    /\ pc' = "assess"
    /\ UNCHANGED << is_windows, test_result, i, quality, report, saved,
                    exit_code, fault, fault_at, partial, faults, raised, calls, env, bw_call >>

SkipStability ==
    /\ pc = "ask_stability"
    /\ pc' = "assess"
    /\ UNCHANGED << is_windows, test_results, test_result, i, quality, report, saved,
                    exit_code, fault, fault_at, partial, faults, raised, calls, env, bw_call >>

Sample == StabilitySample

FinishStability == StabilityEnd("assess")

Assess == assess_cable_quality("assess", "report")

Report == generate_report("report", "ask_save")

Save == save_report("ask_save", "complete")

SkipSave ==
    /\ pc = "ask_save"
    /\ pc' = "complete"
    /\ UNCHANGED << is_windows, test_results, test_result, i, quality, report, saved,
                    exit_code, fault, fault_at, partial, faults, raised, calls, env, bw_call >>

\* run_full_test returns and main() with it
Return ==
    /\ pc = "complete"
    /\ pc' = "done"
    /\ exit_code' = 0
    /\ UNCHANGED << is_windows, test_results, test_result, i, quality, report, saved,
                    fault, fault_at, partial, faults, raised, calls, env, bw_call >>

\* an exception leaves run_full_test, which handles none; main() exits 1
Abort(kind) ==
    /\ Running
    /\ fault' = kind
    /\ fault_at' = pc
    /\ partial' = IF pc = "stability" THEN test_result.samples ELSE << >>
    /\ test_result' = None
    /\ exit_code' = 1
    /\ pc' = "exit"
    /\ UNCHANGED << is_windows, test_results, i, quality, report, saved, faults, raised, calls, env, bw_call >>

\* the user presses Ctrl-C: except KeyboardInterrupt
Interrupt == Abort("KeyboardInterrupt")

\* a statement outside every try block raises (a print call, input, open):
\* except Exception
Crash == pc # "start" /\ Abort("Exception")

Next ==
    \/ Start
    \/ Detect
    \/ RunResolution
    \/ RunRefresh
    \/ RunBandwidth
    \/ AcceptStability
    \/ SkipStability
    \/ Sample
    \/ FinishStability
    \/ Assess
    \/ Report
    \/ Save
    \/ SkipSave
    \/ Return
    \/ Interrupt
    \/ Crash

Spec == Init /\ [][Next]_vars

(***************************************************************************)
(* A caller of the class: test units in any order, each probe call of one  *)
(* session answered the same way, then assess_cable_quality.               *)
(***************************************************************************)
InitApi ==
    /\ \E windows \in BOOLEAN :
          /\ NewTester(windows)
          /\ env \in (IF windows THEN Regimes ELSE {"ok"})
    /\ pc = "idle"

\* the resolutions argument: none (the default list applies), or a list
ResolutionArgs == { << >>, << <<1920, 1080>> >> }

MayRunUnit == Len(test_results.tests) < MaxTests

ApiResolution ==
    MayRunUnit /\ \E resolutions \in ResolutionArgs : ResolutionUnit("idle", "idle", resolutions)

ApiRefresh == MayRunUnit /\ RefreshUnit("idle", "idle")

ApiBandwidth == MayRunUnit /\ BandwidthUnit("idle", "idle")

ApiStability ==
    MayRunUnit /\ StabilityStart("idle", ApiDuration)

ApiSample == StabilitySample

ApiFinishStability == StabilityEnd("idle")

ApiAssess == assess_cable_quality("idle", "assessed")

NextApi ==
    \/ ApiResolution
    \/ ApiRefresh
    \/ ApiBandwidth
    \/ ApiStability
    \/ ApiSample
    \/ ApiFinishStability
    \/ ApiAssess

SpecApi == InitApi /\ [][NextApi]_vars

(***************************************************************************)
(* Calls of calculate_bandwidth_requirement.                               *)
(***************************************************************************)
SmallInts == -1..MaxDim
Widths == SmallInts \cup {1920, 3840}
Heights == SmallInts \cup {1080, 2160}
Rates == SmallInts \cup {60, 120}
BitDepths == SmallInts \cup {8, 10}
ChromaArgs == Chromas \cup {"4:1:1"}

\* the arguments of a call not yet made
InitBandwidth ==
    /\ is_windows = FALSE
    /\ test_results = [timestamp |-> "now", platform |-> "Linux", displays |-> << >>,
                       tests |-> << >>, overall_quality |-> "Unknown"]
    /\ test_result = None /\ i = 0 /\ quality = None /\ report = None /\ saved = None
    /\ exit_code = -1 /\ fault = None /\ fault_at = None /\ partial = << >> /\ faults = 0 /\ raised = 0
    /\ calls = << >>
    /\ env = "ok"
    /\ pc = "idle"
    /\ bw_call \in [width : Widths, height : Heights, refresh_rate : Rates,
                    bit_depth : BitDepths, chroma : ChromaArgs, result : {None}]

CallBandwidth ==
    /\ pc = "idle"
    /\ bw_call' = [bw_call EXCEPT !.result =
                      calculate_bandwidth_requirement(
                          bw_call.width, bw_call.height, bw_call.refresh_rate,
                          bw_call.bit_depth, bw_call.chroma)]
    /\ pc' = "called"
    /\ UNCHANGED << is_windows, test_results, test_result, i, quality, report, saved,
                    exit_code, fault, fault_at, partial, faults, raised, calls, env >>

NextBandwidth == CallBandwidth

SpecBandwidth == InitBandwidth /\ [][NextBandwidth]_vars

(***************************************************************************)
(* The properties.                                                         *)
(***************************************************************************)
Outcomes == test_results.tests

totalCount == Len(Outcomes)

\* the outcomes counted as passed: those not marked passed = False
passedCount ==
    Cardinality({j \in 1..Len(Outcomes) :
                    "passed" \notin DOMAIN Outcomes[j] \/ Outcomes[j].passed})

ExpectedGrade ==
    IF totalCount = 0 THEN "Unknown"
    ELSE IF passedCount = totalCount THEN "Excellent"
    ELSE IF 5 * passedCount >= 4 * totalCount THEN "Good"
    ELSE IF 2 * passedCount >= totalCount THEN "Fair"
    ELSE "Poor"

\* C1: once assess_cable_quality has been called, the grade it stored and
\* returned is Unknown for an empty report, else Excellent if every outcome
\* passed, else Good from a ratio of 0.8 on, else Fair from 0.5 on, else
\* Poor; 4 of 5 is Good and 3 of 5 is Fair.
C1_GradeByRatio ==
    pc = "assessed" =>
        /\ quality = ExpectedGrade
        /\ test_results.overall_quality = ExpectedGrade
        /\ (totalCount = 5 /\ passedCount = 4 => quality = "Good")
        /\ (totalCount = 5 /\ passedCount = 3 => quality = "Fair")
        /\ (totalCount = 2 /\ passedCount = 1 => quality = "Fair")

C1_Witness ==
    /\ pc = "assessed"
    /\ totalCount = 5
    /\ passedCount = 4
    /\ quality = "Good"
    /\ test_results.overall_quality = "Good"

\* C2: after any sequence of unit runs followed by assess_cable_quality,
\* 0 <= passedCount <= totalCount, the grade is Unknown exactly when the
\* report is empty, and Excellent exactly when it is not empty and every
\* outcome passed.
C2_GradeExtremes ==
    pc = "assessed" =>
        /\ 0 <= passedCount
        /\ passedCount <= totalCount
        /\ (test_results.overall_quality = "Unknown" <=> totalCount = 0)
        /\ (test_results.overall_quality = "Excellent"
               <=> (passedCount = totalCount /\ totalCount > 0))

C2_Witness ==
    /\ pc = "assessed"
    /\ totalCount = 0
    /\ test_results.overall_quality = "Unknown"
    /\ quality = "Unknown"

IsStability(t) == t.test_name = "Signal Stability Test"
IsResolution(t) == t.test_name = "Resolution Support Test"
IsRefresh(t) == t.test_name = "Refresh Rate Test"
IsBandwidth(t) == t.test_name = "Bandwidth Analysis"

\* a sample that reports at least one display present
ReportsPresence(sample) == "stable" \in DOMAIN sample /\ sample.stable

ErrorSample(sample) == "error" \in DOMAIN sample

\* C3: a stability outcome has passed = true exactly when every one of its
\* samples reports a display present; a sample whose probe call raised is
\* recorded and makes passed = false.
C3_PassedIffEverySamplePresent ==
    \A j \in 1..Len(Outcomes) :
        IsStability(Outcomes[j]) =>
            (Outcomes[j].passed
                <=> \A k \in 1..Len(Outcomes[j].samples) :
                        ReportsPresence(Outcomes[j].samples[k]))

\* C4: when the user cancels the stability test with k samples recorded, a
\* stability outcome holding exactly those k samples, its passed value
\* computed from them, is in the report, and the suite has gone on to the
\* grading instead of terminating.
C4_CancelYieldsPartialOutcome ==
    (fault = "KeyboardInterrupt" /\ fault_at = "stability") =>
        /\ \E j \in 1..Len(Outcomes) :
              /\ IsStability(Outcomes[j])
              /\ Outcomes[j].samples = partial
              /\ Outcomes[j].passed
                    = (\A k \in 1..Len(partial) : ReportsPresence(partial[k]))
        /\ quality # None
        /\ exit_code # 1

UnitPcs == {"resolution", "refresh", "bandwidth", "stability"}

UnitName(at) ==
    CASE at = "resolution" -> "Resolution Support Test"
      [] at = "refresh" -> "Refresh Rate Test"
      [] at = "bandwidth" -> "Bandwidth Analysis"
      [] at = "stability" -> "Signal Stability Test"

\* C5: when a test unit of run_full_test raises an unexpected error, an
\* outcome with passed = false is in the report for that unit, and the suite
\* has gone on: the grade is computed and the run is not aborted.
C5_UnitErrorIsAbsorbed ==
    (fault = "Exception" /\ fault_at \in UnitPcs) =>
        /\ \E j \in 1..Len(Outcomes) :
              /\ Outcomes[j].test_name = UnitName(fault_at)
              /\ "passed" \in DOMAIN Outcomes[j]
              /\ ~Outcomes[j].passed
        /\ quality # None
        /\ exit_code # 1

\* C6: a resolution outcome has passed = true exactly when none of its
\* resolutions is recorded with supported = false; "unknown" does not fail it.
C6_PassedIffNoneUnsupported ==
    \A j \in 1..Len(Outcomes) :
        IsResolution(Outcomes[j]) =>
            (Outcomes[j].passed
                <=> \A k \in 1..Len(Outcomes[j].resolutions_tested) :
                        Outcomes[j].resolutions_tested[k].supported # "False")

InvalidArgs(c) ==
    \/ c.width <= 0
    \/ c.height <= 0
    \/ c.refresh_rate <= 0
    \/ c.bit_depth <= 0
    \/ c.chroma \notin Chromas

\* C7: a call of calculate_bandwidth_requirement with a width, height,
\* refresh rate or bit depth that is zero or negative, or with a chroma
\* format other than 4:4:4, 4:2:2, 4:2:0, ends in InvalidMode.
C7_InvalidModeRejected ==
    (pc = "called" /\ InvalidArgs(bw_call)) =>
        bw_call.result.exception = "InvalidMode"

\* the ceilings of the claim, in tenths of a Gbps
CeilingOf(version) ==
    CASE version = "HDMI 1.4" -> 102
      [] version = "HDMI 2.0" -> 180
      [] version = "HDMI 2.1" -> 480

Versions == {"HDMI 1.4", "HDMI 2.0", "HDMI 2.1"}

\* width * height * rate * 24 * 1.25 / 10^9 <= tenths / 10, the sizes being
\* multiples of ten
ScenarioFits(sc, tenths) ==
    ((sc.width \div 10) * (sc.height \div 10) * sc.rate) * 3 <= tenths * 100000

Listed(list, version) == \E k \in 1..Len(list) : list[k] = version

\* C8: for every scenario of a bandwidth outcome, compatible_versions holds a
\* version exactly when its ceiling (10.2, 18.0, 48.0 Gbps) is at least the
\* scenario's bandwidth, in ascending order of ceiling; for 3840x2160 at
\* 120 Hz it holds HDMI 2.1 and neither HDMI 1.4 nor HDMI 2.0.
C8_CompatibleVersions ==
    \A j \in 1..Len(Outcomes) :
        IsBandwidth(Outcomes[j]) =>
            /\ Len(Outcomes[j].bandwidth_tests) = Len(test_scenarios)
            /\ \A k \in 1..Len(Outcomes[j].bandwidth_tests) :
                  LET entry == Outcomes[j].bandwidth_tests[k]
                      list == entry.compatible_versions
                  IN  /\ entry.scenario = test_scenarios[k].name
                      /\ \A m \in 1..Len(list) : list[m] \in Versions
                      /\ \A version \in Versions :
                            Listed(list, version)
                               <=> ScenarioFits(test_scenarios[k], CeilingOf(version))
                      /\ \A m, n \in 1..Len(list) :
                            m < n => CeilingOf(list[m]) < CeilingOf(list[n])
                      /\ (entry.scenario = "4K@120Hz" => list = << "HDMI 2.1" >>)

C8_Witness ==
    \E j \in 1..Len(Outcomes) :
        /\ IsBandwidth(Outcomes[j])
        /\ Outcomes[j].bandwidth_tests[6].scenario = "4K@120Hz"
        /\ Outcomes[j].bandwidth_tests[6].compatible_versions = << "HDMI 2.1" >>
        /\ Outcomes[j].bandwidth_tests[4].compatible_versions = << "HDMI 2.0", "HDMI 2.1" >>

ChromaRank(chroma) ==
    CASE chroma = "4:2:0" -> 0
      [] chroma = "4:2:2" -> 1
      [] chroma = "4:4:4" -> 2

Positive(c) ==
    c.width > 0 /\ c.height > 0 /\ c.refresh_rate > 0 /\ c.bit_depth > 0

Bw(width, height, refresh_rate, bit_depth, chroma) ==
    calculate_bandwidth_requirement(width, height, refresh_rate, bit_depth, chroma).bandwidth

\* C9: on positive integers, calculate_bandwidth_requirement does not
\* decrease when the width, the height, the refresh rate or the bit depth
\* grows and the rest is kept, and its result for 4:2:0 is at most that for
\* 4:2:2, which is at most that for 4:4:4.
C9_Monotone ==
    (pc = "called" /\ Positive(bw_call) /\ bw_call.chroma \in Chromas) =>
        LET c == bw_call
            got == c.result.bandwidth
        IN  /\ \A width \in Widths : width >= c.width =>
                  LessEq(got, Bw(width, c.height, c.refresh_rate, c.bit_depth, c.chroma))
            /\ \A height \in Heights : height >= c.height =>
                  LessEq(got, Bw(c.width, height, c.refresh_rate, c.bit_depth, c.chroma))
            /\ \A refresh_rate \in Rates : refresh_rate >= c.refresh_rate =>
                  LessEq(got, Bw(c.width, c.height, refresh_rate, c.bit_depth, c.chroma))
            /\ \A bit_depth \in BitDepths : bit_depth >= c.bit_depth =>
                  LessEq(got, Bw(c.width, c.height, c.refresh_rate, bit_depth, c.chroma))
            /\ \A chroma \in Chromas : ChromaRank(chroma) >= ChromaRank(c.chroma) =>
                  LessEq(got, Bw(c.width, c.height, c.refresh_rate, c.bit_depth, chroma))
            /\ \A chroma \in Chromas : ChromaRank(chroma) <= ChromaRank(c.chroma) =>
                  LessEq(Bw(c.width, c.height, c.refresh_rate, c.bit_depth, chroma), got)

C9_Witness ==
    /\ pc = "called"
    /\ bw_call.width = 1920
    /\ bw_call.height = 1080
    /\ bw_call.refresh_rate = 60
    /\ bw_call.bit_depth = 8
    /\ bw_call.chroma = "4:2:2"
    /\ bw_call.result.bandwidth = << 19906, 560000 >>

ErrorEntries(entries) ==
    {k \in 1..Len(entries) : "error" \in DOMAIN entries[k]}

\* the outcome a mode unit appended in this step: every item has its entry,
\* and the probe calls that raised are the entries with an error, each with
\* supported = false
ModeUnitAbsorbed(name, key, items) ==
    /\ Len(test_results'.tests) = Len(test_results.tests) + 1
    /\ LET outcome == test_results'.tests[Len(test_results'.tests)]
           entries == outcome[key]
       IN  /\ outcome.test_name = name
           /\ Len(entries) = items
           /\ Cardinality(ErrorEntries(entries)) = raised' - raised
           /\ \A k \in ErrorEntries(entries) : entries[k].supported = "False"

\* C10: a probe call that raises inside the resolution, refresh-rate or
\* stability unit does not leave the unit: the failure is recorded for its
\* item (supported = false with the error, or an error sample), the
\* remaining items and samples are still taken, the outcome is appended and
\* the run goes on with the next unit.
C10_ProbeFailureIsSoft ==
    [][ /\ raised' > raised =>
            /\ fault' = None
            /\ exit_code' = -1
            /\ pc \in {"resolution", "refresh", "stability"}
            /\ pc = "resolution" =>
                  pc' = "refresh" /\ ModeUnitAbsorbed("Resolution Support Test", "resolutions_tested", 3)
            /\ pc = "refresh" =>
                  pc' = "bandwidth" /\ ModeUnitAbsorbed("Refresh Rate Test", "refresh_rates_tested", 5)
            /\ pc = "stability" =>
                  /\ pc' = "stability"
                  /\ i' = i + 1
                  /\ Len(test_result'.samples) = Len(test_result.samples) + 1
                  /\ test_result'.samples[i + 1].time = i
                  /\ ErrorSample(test_result'.samples[i + 1])
        /\ (pc = "stability" /\ pc' = "assess") =>
            /\ test_results'.tests = Append(test_results.tests, test_result)
            /\ Len(test_result.samples) = (IF is_windows THEN 10 ELSE 0)
      ]_vars

C10_Witness ==
    /\ pc = "assess"
    /\ fault = None
    /\ raised = 2
    /\ Len(Outcomes) = 4
    /\ Cardinality(ErrorEntries(Outcomes[1].resolutions_tested)) = 1
    /\ Len(Outcomes[1].resolutions_tested) = 3
    /\ IsStability(Outcomes[4])
    /\ Len(Outcomes[4].samples) = 10
    /\ ErrorSample(Outcomes[4].samples[3])

Probe == "detect_displays"

UnitCalls ==
    {"test_resolution_support", "test_refresh_rates", "test_bandwidth_capabilities",
     "test_signal_stability"}

\* the calls of a run whose user accepts the stability test and saves
AcceptedOrder ==
    << Probe, "test_resolution_support", "test_refresh_rates",
       "test_bandwidth_capabilities", "test_signal_stability",
       "assess_cable_quality", "generate_report", "save_report" >>

\* the calls of a run whose user declines the stability test and saves
DeclinedOrder ==
    << Probe, "test_resolution_support", "test_refresh_rates",
       "test_bandwidth_capabilities",
       "assess_cable_quality", "generate_report", "save_report" >>

IsPrefix(s, t) == Len(s) <= Len(t) /\ SubSeq(t, 1, Len(s)) = s

WasCalled(method) == \E k \in 1..Len(calls) : calls[k] = method

OutcomeNameOf(method) ==
    CASE method = "test_resolution_support" -> "Resolution Support Test"
      [] method = "test_refresh_rates" -> "Refresh Rate Test"
      [] method = "test_bandwidth_capabilities" -> "Bandwidth Analysis"
      [] method = "test_signal_stability" -> "Signal Stability Test"

\* the units that have run to their end: the stability test is still
\* running, or was left by an exception, while no outcome of it is appended
CompletedUnits ==
    LET units == SelectSeq(calls, LAMBDA c : c \in UnitCalls)
    IN  IF pc = "stability" \/ fault_at = "stability"
        THEN SubSeq(units, 1, Len(units) - 1)
        ELSE units

StabilityDeclined ==
    WasCalled("assess_cable_quality") /\ ~WasCalled("test_signal_stability")

\* C11: in a run of run_full_test the display probe is called once, before
\* every unit; the units run in the order resolution, refresh rate,
\* bandwidth and, if accepted, stability; the grade is computed after the
\* last unit and the report rendered after the grade; the report holds one
\* outcome per unit run, in that order; a declined stability test leaves no
\* outcome and is not counted.
C11_OrderOfRun ==
    /\ IsPrefix(calls, AcceptedOrder) \/ IsPrefix(calls, DeclinedOrder)
    /\ Len(Outcomes) = Len(CompletedUnits)
    /\ \A k \in 1..Len(Outcomes) :
          Outcomes[k].test_name = OutcomeNameOf(CompletedUnits[k])
    /\ (quality # None <=> WasCalled("assess_cable_quality"))
    /\ (~WasCalled("generate_report") => report = None)
    /\ (pc \in UnitPcs => WasCalled(Probe))
    /\ StabilityDeclined =>
          /\ totalCount = 3
          /\ \A k \in 1..Len(Outcomes) : ~IsStability(Outcomes[k])
          /\ quality = ExpectedGrade
    /\ WasCalled("generate_report") =>
          /\ Len(report.tests) = Len(CompletedUnits)
          /\ report.overall_quality = quality

C11_Witness ==
    /\ pc = "done"
    /\ calls = << Probe, "test_resolution_support", "test_refresh_rates",
                  "test_bandwidth_capabilities", "assess_cable_quality",
                  "generate_report" >>
    /\ totalCount = 3
    /\ quality = "Excellent"
    /\ Len(report.tests) = 3

\* the method called in this step, if one is
CallsNow(method) == calls' = Append(calls, method)

\* a test unit comes to its end in this step
UnitEnds ==
    \/ CallsNow("test_resolution_support")
    \/ CallsNow("test_refresh_rates")
    \/ CallsNow("test_bandwidth_capabilities")
    \/ (pc = "stability" /\ pc' \notin {"stability", "exit"})

\* C12: a run of a test unit adds exactly one outcome, at the end of the
\* list, and no step changes or reorders the outcomes already there or adds
\* one otherwise; assess_cable_quality changes the grade only;
\* generate_report and save_report leave the whole report (timestamp,
\* platform, displays, outcomes, grade) as it is.
C12_OutcomesFrozen ==
    [][ /\ IsPrefix(test_results.tests, test_results'.tests)
        /\ UnitEnds => Len(test_results'.tests) = Len(test_results.tests) + 1
        /\ ~UnitEnds => test_results'.tests = test_results.tests
        /\ (pc = "stability" /\ UnitEnds) =>
              test_results'.tests[Len(test_results'.tests)] = test_result
        /\ CallsNow("assess_cable_quality") =>
              /\ test_results' = [test_results EXCEPT
                                     !.overall_quality = test_results'.overall_quality]
              /\ test_results'.overall_quality = quality'
        /\ (CallsNow("generate_report") \/ CallsNow("save_report")) =>
              test_results' = test_results
        /\ CallsNow("save_report") => saved' = test_results
        /\ test_results'.timestamp = test_results.timestamp
        /\ test_results'.platform = test_results.platform
        /\ test_results'.displays # test_results.displays => CallsNow(Probe)
        /\ test_results'.overall_quality # test_results.overall_quality =>
              CallsNow("assess_cable_quality")
      ]_vars

C12_Witness ==
    /\ pc = "done"
    /\ WasCalled("save_report")
    /\ saved = test_results
    /\ totalCount = 4
    /\ passedCount = 3
    /\ test_results.overall_quality = "Fair"
    /\ Len(report.tests) = 4
    /\ report.tests[4].status = "FAILED"

====
